---- MODULE Spec2Model ----
(***************************************************************************)
(* Validation of the 2019 part of a ZRC2020 submission                     *)
(* (zerospeech2020/validation/submission_2019.py).                         *)
(*                                                                         *)
(* The model follows one call of Submission2019.is_valid(), which calls    *)
(* validate(): top-level layout, detection of the auxiliary embeddings,    *)
(* metadata, code bundle, then one LanguageValidation per language.  The   *)
(* program counter pc names the statement about to be executed.            *)
(***************************************************************************)
EXTENDS Integers, Sequences, FiniteSets, TLC

\* ------------------------------------------------------------- bounds
\* Number of distinct file names a manifest or a directory may hold.
NumFiles == 2

\* Number of validate() calls made on one LanguageValidation.
MaxCalls == 2

\* ---------------------------------------------------------- vocabulary
Languages == <<"english", "surprise">>
LanguageSet == {"english", "surprise"}
AuxNames == {"auxiliary_embedding1", "auxiliary_embedding2"}

\* File names are numbered; odd numbers are audio files (n.wav), even
\* numbers are text embeddings (n.txt).
FileNames == 1..NumFiles
Ext(n) == IF n % 2 = 1 THEN "wav" ELSE "txt"

None == "None"

\* os.path.basename of a relative path  <dir>/<base>.
basename(path) == path.base

\* One line of a filelist, as read by iterating over the open file:
\*   first : the first space-delimited token, a relative path
\*   rest  : the number of further tokens on the line
\*   nl    : whether the line still carries its trailing newline
FirstToken(line) == line.first      \* f.strip().split(' ')[0]

\* str.endswith('.wav') applied to the raw line (newline included).
endswith_wav(line) ==
    /\ ~line.nl
    /\ line.rest = 0
    /\ Ext(line.first.base) = "wav"

\* The line naming file n in a filelist.
ListedLine(n, nl) ==
    [first |-> [dir |-> "test", base |-> n],
     rest  |-> IF Ext(n) = "txt" THEN 1 ELSE 0,
     nl    |-> nl]

\* Filelists name their files in increasing order, one per line; every
\* line but possibly the last one ends with a newline.
RECURSIVE LinesOf(_, _)
LinesOf(S, lastNl) ==
    IF S = {} THEN <<>>
    ELSE LET m == CHOOSE x \in S : \A y \in S : y <= x
         IN  Append(LinesOf(S \ {m}, TRUE), ListedLine(m, lastNl))

FileLists == {LinesOf(S, nl) : S \in SUBSET FileNames, nl \in BOOLEAN}

\* What a directory may contain.
DirContents == SUBSET FileNames

\* ---------------------------------------------------------- metadata
FixedKeys == {"abx distance", "system description", "hyperparameters",
              "using parallel train", "using external data"}
AuxKeys == {"auxiliary1 description", "auxiliary2 description"}
OtherKeys == {"comment"}

valid_distances == {"dtw_cosine", "dtw_kl", "levenshtein"}
Distances == valid_distances \cup {"dtw_euclidean"}

\* The type of the value a well-typed document gives to each key.
TypeOf(k) ==
    IF k \in {"using parallel train", "using external data"} THEN "bool"
    ELSE IF k = "hyperparameters" THEN "dict"
    ELSE "str"

\* A parsed metadata.yaml: the keys it has, the type of each value, and
\* the value of 'abx distance' (None when the key is missing).
MakeDoc(keys, abx, boolType) ==
    [keys  |-> keys,
     types |-> [k \in keys |->
                  IF k = "using external data" THEN boolType ELSE TypeOf(k)],
     abx   |-> IF "abx distance" \in keys THEN abx ELSE None]

MetadataDocs ==
    { MakeDoc((FixedKeys \ drop) \cup aux \cup other, abx, bt) :
        drop  \in {{}, {"system description"}, {"abx distance"}},
        aux   \in SUBSET AuxKeys,
        other \in SUBSET OtherKeys,
        abx   \in Distances,
        bt    \in {"bool", "str"} }

NoDoc == [keys |-> {}, types |-> <<>>, abx |-> None]

\* ------------------------------------------------------------- state
VARIABLES
    is_open_source,    \* Submission2019._is_open_source
    top_entries,       \* names found at the root of the submission
    aux_dirs,          \* aux_dirs[l][name]: <root>/<l>/<name> is a directory
    pc,                \* the statement about to be executed
    do_aux1, do_aux2,  \* locals of Submission2019.validate
    entries,           \* local of _validate_metadata: required key -> type
    optional_entries,  \* local of _validate_metadata: optional key -> type
    metadata,          \* local of _validate_metadata: the parsed document
    raised,            \* the exception propagating out of validate()
    result,            \* what is_valid() gave its caller
    language,          \* _validate_language: language; the validator's _language
    filelists,         \* content of the three filelists of that language
    errors,            \* LanguageValidation.errors
    found,             \* history: the errors appended since validate() began
    previous,          \* the caller's record of the earlier validate() calls
    directory,         \* _validate_directory: the directory being validated
    isdir,             \* _check_exists: os.path.isdir(directory), line 140
    exist_list,        \* _validate_directory: parameter exist_list
    embedding_list,    \* _validate_directory: parameter embedding_list
    existing_files,    \* _check_exists: local existing_files
    expected_files,    \* _check_exists: local expected_files
    wavs_list,         \* _validate_directory: local wavs_list
    malformed,         \* read_all logged a malformed file of this directory
    calls              \* history: every call made so far, in order

vars == <<is_open_source, top_entries, aux_dirs, pc, do_aux1, do_aux2,
          entries, optional_entries, metadata, raised, result, language,
          filelists, errors, found, previous, directory, isdir, exist_list,
          embedding_list, existing_files, expected_files, wavs_list,
          malformed, calls>>

\* What no step of validate() changes.
submission_vars == <<is_open_source, top_entries, aux_dirs, previous>>
metadata_vars   == <<entries, optional_entries, metadata>>
language_vars   == <<language, filelists, errors, found>>
directory_vars  == <<directory, isdir, exist_list, embedding_list,
                     existing_files, expected_files, wavs_list, malformed>>

\* No validate() call of a LanguageValidation has ended yet.  Otherwise:
\* how many have, whether the last one returned, and the errors it left.
NoPrevious == [calls |-> 0, returned |-> FALSE, errors |-> <<>>]

TopNames == {"metadata.yaml", "english", "surprise", "code", "README"}

NoError == [type |-> None, msg |-> None, arg |-> None]
Error(type, msg, arg) == [type |-> type, msg |-> msg, arg |-> arg]

Call(op, l, d, f) == [op |-> op, language |-> l, directory |-> d, list |-> f]

\* An exception leaves validate(): nothing else of the state changes.
Raise(type, msg, arg) ==
    /\ raised' = Error(type, msg, arg)
    /\ pc' = "raised"

\* Submission2019.__init__ has returned: the submission is a directory.
\* The snapshot of the file system is fixed for the whole run.
Init ==
    /\ is_open_source \in BOOLEAN
    /\ top_entries \in SUBSET TopNames
    /\ aux_dirs \in [LanguageSet -> [AuxNames -> BOOLEAN]]
    /\ \A l \in LanguageSet : \A a \in AuxNames :
          aux_dirs[l][a] => l \in top_entries
    /\ pc = "validate_directory"
    /\ do_aux1 = FALSE      \* not bound before line 39
    /\ do_aux2 = FALSE      \* not bound before line 42
    /\ entries = <<>>
    /\ optional_entries = <<>>
    /\ metadata = NoDoc
    /\ raised = NoError
    /\ result = None
    /\ language = None
    /\ filelists = <<>>
    /\ errors = <<>>
    /\ found = <<>>
    /\ previous = NoPrevious
    /\ directory = None
    /\ isdir = FALSE
    /\ exist_list = None
    /\ embedding_list = None
    /\ existing_files = {}
    /\ expected_files = {}
    /\ wavs_list = <<>>
    /\ malformed = FALSE
    /\ calls = <<>>

\* ------------------------------------------------- Submission2019.validate
\* Lines 34-35: the entries the root of the submission must have.
expected_top ==
    {"metadata.yaml", "english", "surprise"}
        \cup (IF is_open_source THEN {"code"} ELSE {})

\* utils.validate_directory accepts a directory that holds the expected
\* entries and no other.
directory_ok(actual, expected) == actual = expected

validate_directory ==
    /\ pc = "validate_directory"
    /\ calls' = Append(calls, Call("validate_directory", None, None, None))
    /\ IF directory_ok(top_entries, expected_top)
       THEN /\ pc' = "detect_aux1"
            /\ UNCHANGED raised
       ELSE Raise("ValueError", "layout", None)
    /\ UNCHANGED <<submission_vars, do_aux1, do_aux2, metadata_vars, result,
                   language_vars, directory_vars>>

\* Variant: the directory under any one language is enough, nothing raised.
detect_auxiliary_any(name) ==
    [raises |-> FALSE,
     value  |-> \E i \in 1..2 : aux_dirs[Languages[i]][name]]

\* Variant: only the first language is looked at.
detect_auxiliary_first(name) ==
    [raises |-> FALSE, value |-> aux_dirs[Languages[1]][name]]

\* _detect_auxiliary(name): whether it raises, and what it returns if not.
detect_auxiliary(name) ==
    LET aux_dirs_l == [i \in 1..2 |-> aux_dirs[Languages[i]][name]]
    IN  IF aux_dirs_l = <<TRUE, TRUE>>
        THEN [raises |-> FALSE, value |-> TRUE]
        ELSE IF aux_dirs_l = <<FALSE, FALSE>>
        THEN [raises |-> FALSE, value |-> FALSE]
        ELSE [raises |-> TRUE, value |-> FALSE]

detect_aux1 ==
    /\ pc = "detect_aux1"
    /\ calls' = Append(calls,
          Call("_detect_auxiliary", None, "auxiliary_embedding1", None))
    /\ LET r == detect_auxiliary("auxiliary_embedding1")
       IN  IF r.raises
           THEN /\ Raise("ValueError", "present for one language",
                         "auxiliary_embedding1")
                /\ UNCHANGED do_aux1
           ELSE /\ do_aux1' = r.value
                /\ pc' = "detect_aux2"
                /\ UNCHANGED raised
    /\ UNCHANGED <<submission_vars, do_aux2, metadata_vars, result,
                   language_vars, directory_vars>>

detect_aux2 ==
    /\ pc = "detect_aux2"
    /\ calls' = Append(calls,
          Call("_detect_auxiliary", None, "auxiliary_embedding2", None))
    /\ LET r == detect_auxiliary("auxiliary_embedding2")
       IN  IF r.raises
           THEN /\ Raise("ValueError", "present for one language",
                         "auxiliary_embedding2")
                /\ UNCHANGED do_aux2
           ELSE /\ do_aux2' = r.value
                /\ pc' = "check_order"
                /\ UNCHANGED raised
    /\ UNCHANGED <<submission_vars, do_aux1, metadata_vars, result,
                   language_vars, directory_vars>>

\* Variant: the order of the two auxiliary embeddings is not enforced.
aux2_without_aux1_never(aux1, aux2) == FALSE

\* validate(), lines 45-47.
aux2_without_aux1(aux1, aux2) == aux2 /\ ~aux1

check_order ==
    /\ pc = "check_order"
    /\ IF aux2_without_aux1(do_aux1, do_aux2)
       THEN Raise("ValueError", "found aux2 but not aux1", None)
       ELSE /\ pc' = "validate_metadata"
            /\ UNCHANGED raised
    /\ UNCHANGED <<submission_vars, do_aux1, do_aux2, metadata_vars, result,
                   language_vars, directory_vars, calls>>

\* ------------------------------------------------------ _validate_metadata
\* Lines 74-88: the schema handed to validate_yaml.  A type of None
\* accepts any value.
fixed_entries ==
    [k \in FixedKeys |->
        IF k \in {"abx distance", "system description"} THEN "str"
        ELSE IF k = "hyperparameters" THEN None
        ELSE "bool"]

\* Variant: the two descriptions are attached to the wrong flags.
required_entries_swapped(aux1, aux2) ==
    fixed_entries
      @@ (IF aux2 THEN "auxiliary1 description" :> "str" ELSE <<>>)
      @@ (IF aux1 THEN "auxiliary2 description" :> "str" ELSE <<>>)

required_entries(aux1, aux2) ==
    fixed_entries
      @@ (IF aux1 THEN "auxiliary1 description" :> "str" ELSE <<>>)
      @@ (IF aux2 THEN "auxiliary2 description" :> "str" ELSE <<>>)

optional_schema(aux1, aux2) ==
       (IF aux1 THEN <<>> ELSE "auxiliary1 description" :> "str")
    @@ (IF aux2 THEN <<>> ELSE "auxiliary2 description" :> "str")

validate_metadata ==
    /\ pc = "validate_metadata"
    /\ entries' = required_entries(do_aux1, do_aux2)
    /\ optional_entries' = optional_schema(do_aux1, do_aux2)
    /\ calls' = Append(calls, Call("_validate_metadata", None, None, None))
    /\ pc' = "validate_yaml"
    /\ UNCHANGED <<submission_vars, do_aux1, do_aux2, metadata, raised,
                   result, language_vars, directory_vars>>

\* utils.validate_yaml: every required key is there, no key is outside
\* required and optional, every value has the type its key asks for.
yaml_ok(doc, req, opt) ==
    /\ DOMAIN req \subseteq doc.keys
    /\ doc.keys \subseteq (DOMAIN req \cup DOMAIN opt)
    /\ \A k \in doc.keys :
          LET t == IF k \in DOMAIN req THEN req[k] ELSE opt[k]
          IN  t = None \/ doc.types[k] = t

\* Lines 90-92: metadata.yaml is read and checked against the schema.
validate_yaml ==
    /\ pc = "validate_yaml"
    /\ \E doc \in MetadataDocs :
          /\ metadata' = doc
          /\ IF yaml_ok(doc, entries, optional_entries)
             THEN /\ pc' = "check_distance"
                  /\ UNCHANGED raised
             ELSE Raise("ValueError", "metadata", None)
    /\ calls' = Append(calls, Call("validate_yaml", None, None, None))
    /\ UNCHANGED <<submission_vars, do_aux1, do_aux2, entries,
                   optional_entries, result, language_vars, directory_vars>>

\* Lines 94-100.  The locals of _validate_metadata end with its return.
\* Variant: any distance is accepted.
distance_ok_any(d) == d # None

distance_ok(d) == d \in valid_distances

check_distance ==
    /\ pc = "check_distance"
    /\ IF distance_ok(metadata.abx)
       THEN /\ pc' = "validate_code"
            /\ entries' = <<>>
            /\ optional_entries' = <<>>
            /\ metadata' = NoDoc
            /\ UNCHANGED raised
       ELSE /\ Raise("ValueError", "abx distance", metadata.abx)
            /\ UNCHANGED metadata_vars
    /\ UNCHANGED <<submission_vars, do_aux1, do_aux2, result,
                   language_vars, directory_vars, calls>>

\* Lines 53-55, utils.validate_code: the code bundle follows the policy
\* for is_open_source, or the call raises.
validate_code ==
    /\ pc = "validate_code"
    /\ calls' = Append(calls, Call("validate_code", None, "code", None))
    /\ \E ok \in BOOLEAN :
          IF ok
          THEN /\ pc' = "validate_language"
               /\ language' = Languages[1]
               /\ UNCHANGED raised
          ELSE /\ Raise("ValueError", "code", None)
               /\ UNCHANGED language
    /\ UNCHANGED <<submission_vars, do_aux1, do_aux2, metadata_vars, result,
                   filelists, errors, found, directory_vars>>

\* ------------------------------------------------------ _validate_language
ListNames == {"required", "bitrate", "embedding"}

\* A filelist is a file of the installed package; its content is fixed,
\* and known to the model from the first time the validator opens it.
Unread == [read |-> FALSE, lines |-> <<>>]
ReadAs(lines) == [read |-> TRUE, lines |-> lines]

\* open(files_list): the content the file can have.
open(lists, name) ==
    IF lists[name].read THEN {lists[name].lines} ELSE FileLists

\* Variant: the list is kept, with the entries of the last call.
fresh_errors_shared(errs) == errs

\* Lines 127 and 186: self.errors = [], a new empty list.
fresh_errors(errs) == <<>>

\* Line 103, LanguageValidation.__init__: the three filelists of the
\* language are resolved (_get_file raises when one is not installed) and
\* the list of errors starts empty.
new_validation ==
    /\ pc = "validate_language"
    /\ calls' = Append(calls, Call("LanguageValidation", language, None, None))
    /\ \E installed \in BOOLEAN :
          IF installed
          THEN /\ filelists' = [n \in ListNames |-> Unread]
               /\ errors' = fresh_errors(errors)
               /\ pc' = "validate"
               /\ UNCHANGED raised
          ELSE /\ Raise("ValueError", "file not found", None)
               /\ UNCHANGED <<filelists, errors>>
    /\ UNCHANGED <<submission_vars, do_aux1, do_aux2, metadata_vars, result,
                   language, found, directory_vars>>

\* ------------------------------------------------ LanguageValidation.validate
\* Lines 196-206: the directory validated after d, with the lists it is
\* given; None when d was the last one.
first_directory ==
    [directory |-> "test", exist_list |-> "required",
     embedding_list |-> "embedding"]

\* Variant: an auxiliary directory is given the lists of test.
aux_directory_as_test(name) ==
    [directory |-> name, exist_list |-> "required",
     embedding_list |-> "embedding"]

aux_directory(name) ==
    [directory |-> name, exist_list |-> "embedding",
     embedding_list |-> "bitrate"]

\* Variant: the second auxiliary directory is validated before the first.
next_directory_aux2_first(d, aux1, aux2) ==
    IF d = "test" /\ aux2 THEN aux_directory("auxiliary_embedding2")
    ELSE IF d \in {"test", "auxiliary_embedding2"} /\ aux1
         THEN aux_directory("auxiliary_embedding1")
    ELSE [directory |-> None, exist_list |-> None, embedding_list |-> None]

next_directory(d, aux1, aux2) ==
    IF d = "test" /\ aux1 THEN aux_directory("auxiliary_embedding1")
    ELSE IF d \in {"test", "auxiliary_embedding1"} /\ aux2
         THEN aux_directory("auxiliary_embedding2")
    ELSE [directory |-> None, exist_list |-> None, embedding_list |-> None]

\* Lines 185-198: a fresh list of errors, then the test directory.
validate ==
    /\ pc = "validate"
    /\ errors' = fresh_errors(errors)
    /\ found' = <<>>
    /\ directory' = first_directory.directory
    /\ exist_list' = first_directory.exist_list
    /\ embedding_list' = first_directory.embedding_list
    /\ calls' = Append(calls, Call("validate", language, None, None))
    /\ pc' = "check_exists"
    /\ UNCHANGED <<submission_vars, do_aux1, do_aux2, metadata_vars, raised,
                   result, language, filelists, isdir, existing_files,
                   expected_files, wavs_list, malformed>>

\* All the orders in which the elements of a set can be iterated.
Orderings(S) ==
    {s \in [1..Cardinality(S) -> S] :
        \A i, j \in 1..Cardinality(S) : i # j => s[i] # s[j]}

missing_error(l, root_dir, f) ==
    [kind |-> "missing file", language |-> l, root_dir |-> root_dir,
     file |-> f]

\* Line 144-146: the basenames of the first token of each line.
expected_of(lines) ==
    {basename(FirstToken(lines[i])) : i \in 1..Len(lines)}

\* Variant: files that are not listed are reported too.
missing_of_symmetric(expected, existing) ==
    (expected \ existing) \cup (existing \ expected)

missing_of(expected, existing) == expected \ existing

\* Variant: once errors have been found, later directories are not
\* searched for missing files.
missing_files_if_clean(errs, expected, listing) ==
    IF errs = <<>> THEN missing_of(expected, listing) ELSE {}

\* Lines 148-151, called at line 178 before any test of self.errors: the
\* files reported missing, whatever errors were found before.
missing_files(errs, expected, listing) == missing_of(expected, listing)

\* Variant: a directory that does not exist is one more entry of the log.
missing_directory_logged(errs, l, d) ==
    [raises |-> FALSE,
     errors |-> Append(errs, [kind |-> "missing directory", language |-> l,
                             root_dir |-> d, file |-> 0])]

\* Lines 140-141: a directory that does not exist raises, the errors are
\* left as they are.
missing_directory(errs, l, d) == [raises |-> TRUE, errors |-> errs]

\* _check_exists, lines 139-151.  The test directory may be absent; an
\* auxiliary directory is the one _detect_auxiliary saw.
check_exists ==
    /\ pc = "check_exists"
    /\ calls' = Append(calls,
          Call("_check_exists", language, directory, exist_list))
    /\ \E d \in (IF directory = "test" THEN BOOLEAN
                 ELSE {aux_dirs[language][directory]}) :
          /\ isdir' = d
          /\ IF ~d
             THEN LET out == missing_directory(errors, language, directory)
                  IN  /\ errors' = out.errors
                      /\ found' = found \o SubSeq(out.errors, Len(errors) + 1,
                                                   Len(out.errors))
                      /\ IF out.raises
                         THEN Raise("ValueError", "directory does not exist",
                                    directory)
                         ELSE pc' = "check_embedding" /\ UNCHANGED raised
                      /\ UNCHANGED <<filelists, existing_files,
                                     expected_files>>
             ELSE \E listing \in DirContents,
                     lines \in open(filelists, exist_list) :
                    LET expected == expected_of(lines)
                        missing  == missing_files(errors, expected,
                                                  listing)
                    IN  /\ filelists' =
                           [filelists EXCEPT ![exist_list] = ReadAs(lines)]
                        /\ existing_files' = listing
                        /\ expected_files' = expected
                        /\ \E order \in Orderings(missing) :
                              LET new == [i \in 1..Len(order) |->
                                            missing_error(language, directory,
                                                          order[i])]
                              IN  /\ errors' = errors \o new
                                  /\ found' = found \o new
                        /\ pc' = "check_embedding"
                        /\ UNCHANGED raised
    /\ UNCHANGED <<submission_vars, do_aux1, do_aux2, metadata_vars, result,
                   language, directory, exist_list, embedding_list,
                   wavs_list, malformed>>

\* read_2019_features.read_all in non-strict mode: a malformed file is
\* recorded through the logger it is given, and nothing is raised.
read_all_logs == BOOLEAN

\* Lines 178-179 and _check_embedding: read_all is given the logger, not
\* the list of errors.
check_embedding ==
    /\ pc = "check_embedding"
    /\ IF errors = <<>>
       THEN /\ calls' = Append(calls, Call("_check_embedding", language,
                                           directory, embedding_list))
            /\ malformed' \in read_all_logs
       ELSE UNCHANGED <<calls, malformed>>
    /\ pc' = "check_wavs"
    /\ UNCHANGED <<submission_vars, do_aux1, do_aux2, metadata_vars, raised,
                   result, language_vars, directory, isdir, exist_list,
                   embedding_list, existing_files, expected_files,
                   wavs_list>>

\* Line 182: the lines of exist_list that end with '.wav'.
wavs_of(lines) == SelectSeq(lines, endswith_wav)

\* _check_wavs, lines 158-169: the first pass through the loop reads
\* self._submission, an attribute a LanguageValidation does not have.
check_wavs_raises(wavs) == wavs # <<>>

\* Lines 181-183, then the return of _validate_directory and the choice
\* of the next directory (lines 200-206).
check_wavs ==
    /\ pc = "check_wavs"
    /\ LET run  == errors = <<>>
           wavs == IF run THEN wavs_of(filelists[exist_list].lines) ELSE <<>>
           nxt  == next_directory(directory, do_aux1, do_aux2)
       IN  /\ calls' = IF run
                       THEN Append(calls, Call("_check_wavs", language,
                                               directory, exist_list))
                       ELSE calls
           /\ IF run /\ check_wavs_raises(wavs)
              THEN /\ Raise("AttributeError", "_submission", None)
                   /\ wavs_list' = wavs
                   /\ UNCHANGED <<directory, isdir, exist_list,
                                  embedding_list, existing_files,
                                  expected_files, malformed>>
              ELSE /\ directory' = nxt.directory
                   /\ exist_list' = nxt.exist_list
                   /\ embedding_list' = nxt.embedding_list
                   /\ isdir' = FALSE
                   /\ existing_files' = {}
                   /\ expected_files' = {}
                   /\ wavs_list' = <<>>
                   /\ malformed' = FALSE
                   /\ pc' = IF nxt.directory = None THEN "log_errors"
                            ELSE "check_exists"
                   /\ UNCHANGED raised
    /\ UNCHANGED <<submission_vars, do_aux1, do_aux2, metadata_vars, result,
                   language_vars>>

\* Variant: validate() stops at the first language that has errors.
after_language_stop(l, errs) ==
    [report |-> errs # <<>>,
     next   |-> IF l = Languages[1] /\ errs = <<>> THEN Languages[2]
                ELSE None]

\* Lines 106-107 and 58-59: what follows the validation of language l
\* that ended with the errors errs: whether utils.log_errors is called
\* (it emits the errors and returns), and the language validated next.
after_language(l, errs) ==
    [report |-> errs # <<>>,
     next   |-> IF l = Languages[1] THEN Languages[2] ELSE None]

\* utils.log_errors emits the errors it is given and does not raise.
log_errors_raises(errs) == FALSE

log_errors ==
    /\ pc = "log_errors"
    /\ LET after == after_language(language, errors)
       IN  /\ calls' = IF after.report
                       THEN Append(calls,
                               Call("log_errors", language, None, None))
                       ELSE calls
           /\ IF after.report /\ log_errors_raises(errors)
              THEN /\ Raise("ValueError", "log_errors", language)
                   /\ UNCHANGED <<language, filelists, errors, found>>
              ELSE /\ language' = after.next
                   /\ pc' = IF after.next = None THEN "returned"
                            ELSE "validate_language"
                   /\ filelists' = <<>>
                   /\ errors' = fresh_errors(errors)
                   /\ found' = <<>>
                   /\ UNCHANGED raised
    /\ UNCHANGED <<submission_vars, do_aux1, do_aux2, metadata_vars,
                   result, directory_vars>>

\* ------------------------------------------------- Submission2019.is_valid
\* Lines 22-28: only ValueError is caught.
is_valid_result(returned, exc) ==
    IF returned THEN "True"
    ELSE IF exc.type = "ValueError" THEN "False"
    ELSE "exception"

is_valid ==
    /\ pc \in {"returned", "raised"}
    /\ result' = is_valid_result(pc = "returned", raised)
    /\ pc' = "done"
    /\ UNCHANGED <<submission_vars, do_aux1, do_aux2, metadata_vars, raised,
                   language_vars, directory_vars, calls>>

Next ==
    \/ validate_directory
    \/ detect_aux1
    \/ detect_aux2
    \/ check_order
    \/ validate_metadata
    \/ validate_yaml
    \/ check_distance
    \/ validate_code
    \/ new_validation
    \/ validate
    \/ check_exists
    \/ check_embedding
    \/ check_wavs
    \/ log_errors
    \/ is_valid

Spec == Init /\ [][Next]_vars

\* ------------------------------------------- a LanguageValidation on its own
\* A caller holds one LanguageValidation and calls validate() on it up to
\* MaxCalls times, each time with the same arguments.  The submission has
\* no auxiliary embeddings; the caller may still ask for the first one.
\* validate() has ended when pc is "log_errors" (it returned) or "raised".
InitLV ==
    /\ is_open_source = FALSE
    /\ top_entries = {"metadata.yaml", "english", "surprise"}
    /\ language \in LanguageSet
    /\ do_aux1 \in BOOLEAN
    /\ aux_dirs = [l \in LanguageSet |-> [a \in AuxNames |-> FALSE]]
    /\ pc = "validate"
    /\ do_aux2 = FALSE
    /\ entries = <<>>
    /\ optional_entries = <<>>
    /\ metadata = NoDoc
    /\ raised = NoError
    /\ result = None
    /\ filelists = [n \in ListNames |-> Unread]
    /\ errors = <<>>
    /\ found = <<>>
    /\ previous = NoPrevious
    /\ directory = None
    /\ isdir = FALSE
    /\ exist_list = None
    /\ embedding_list = None
    /\ existing_files = {}
    /\ expected_files = {}
    /\ wavs_list = <<>>
    /\ malformed = FALSE
    /\ calls = <<>>

\* The caller calls validate() once more; self.errors is whatever the
\* last call left.
call_again ==
    /\ pc \in {"log_errors", "raised"}
    /\ previous.calls + 1 < MaxCalls
    /\ previous' = [calls    |-> previous.calls + 1,
                    returned |-> pc = "log_errors",
                    errors   |-> errors]
    /\ raised' = NoError
    /\ pc' = "validate"
    /\ directory' = None
    /\ isdir' = FALSE
    /\ exist_list' = None
    /\ embedding_list' = None
    /\ existing_files' = {}
    /\ expected_files' = {}
    /\ wavs_list' = <<>>
    /\ malformed' = FALSE
    /\ calls' = <<>>
    /\ UNCHANGED <<is_open_source, top_entries, aux_dirs, do_aux1, do_aux2,
                   metadata_vars, result, language_vars>>

NextLV ==
    \/ validate
    \/ check_exists
    \/ check_embedding
    \/ check_wavs
    \/ call_again

SpecLV == InitLV /\ [][NextLV]_vars

\* ============================================================ properties
Made(op, l, d) ==
    \E i \in 1..Len(calls) :
        /\ calls[i].op = op
        /\ calls[i].language = l
        /\ calls[i].directory = d

Started(op) == \E i \in 1..Len(calls) : calls[i].op = op

Finished == pc \in {"returned", "raised", "done"}

LayoutPassed == top_entries = expected_top

InBoth(name)    == \A l \in LanguageSet : aux_dirs[l][name]
InNeither(name) == \A l \in LanguageSet : ~aux_dirs[l][name]
InOneOnly(name) == ~InBoth(name) /\ ~InNeither(name)

Reported(l) == Made("log_errors", l, None)

LaterStages ==
    {"_validate_metadata", "validate_yaml", "validate_code",
     "LanguageValidation", "validate", "_check_exists", "_check_embedding",
     "_check_wavs", "log_errors"}

\* ---------------------------------------------------------------- C1
\* C1: whenever the validation of english or of surprise ended with a
\* non-empty list of errors (which log_errors then emitted), validate()
\* does not return normally and is_valid() does not answer True.
C1_ErrorsMakeInvalid ==
    (Reported("english") \/ Reported("surprise"))
        => (pc # "returned" /\ result # "True")

\* ---------------------------------------------------------------- C2
\* C2: once the layout check has passed, an auxiliary directory found
\* under exactly one language ends validate() with the 'present for one
\* language but not for the other' ValueError before anything later is
\* started, and a detection that returned gives TRUE when the directory
\* is under both languages and FALSE when it is under neither.
DetectReturned(name) ==
    /\ Made("_detect_auxiliary", None, name)
    /\ ~(raised.msg = "present for one language" /\ raised.arg = name)

C2_AuxDetection ==
    /\ \A name \in AuxNames :
          (LayoutPassed /\ InOneOnly(name)) =>
              /\ \A op \in LaterStages : ~Started(op)
              /\ pc \in {"validate_directory", "detect_aux1", "detect_aux2",
                         "raised", "done"}
              /\ Finished =>
                    /\ raised.type = "ValueError"
                    /\ raised.msg = "present for one language"
                    /\ InOneOnly(raised.arg)
                    /\ result # "True"
    /\ DetectReturned("auxiliary_embedding1") =>
          /\ InBoth("auxiliary_embedding1") => do_aux1 = TRUE
          /\ InNeither("auxiliary_embedding1") => do_aux1 = FALSE
    /\ DetectReturned("auxiliary_embedding2") =>
          /\ InBoth("auxiliary_embedding2") => do_aux2 = TRUE
          /\ InNeither("auxiliary_embedding2") => do_aux2 = FALSE

\* auxiliary_embedding1 is under both languages and is detected, then
\* auxiliary_embedding2 is under english only and the run has failed.
C2_Witness ==
    /\ pc = "done"
    /\ LayoutPassed
    /\ do_aux1 = TRUE
    /\ aux_dirs["english"]["auxiliary_embedding2"]
    /\ ~aux_dirs["surprise"]["auxiliary_embedding2"]
    /\ raised.arg = "auxiliary_embedding2"
    /\ result = "False"

\* ---------------------------------------------------------------- C3
\* C3 as stated: every submission with auxiliary_embedding2 present and
\* auxiliary_embedding1 absent fails with the error naming that ordering
\* violation.
Aux2WithoutAux1 ==
    InBoth("auxiliary_embedding2") /\ InNeither("auxiliary_embedding1")

C3_OrderErrorAlways ==
    (Aux2WithoutAux1 /\ Finished) =>
        /\ raised.type = "ValueError"
        /\ raised.msg = "found aux2 but not aux1"

\* C3 as amended: a submission that passes the top-level layout check and
\* has auxiliary_embedding2 without auxiliary_embedding1 fails with the
\* ValueError naming that ordering violation, and nothing later is
\* started; so whenever metadata validation is reached, do_aux2 implies
\* do_aux1.
C3_OrderError ==
    /\ (LayoutPassed /\ Aux2WithoutAux1) =>
          /\ \A op \in LaterStages : ~Started(op)
          /\ Finished =>
                /\ raised.type = "ValueError"
                /\ raised.msg = "found aux2 but not aux1"
                /\ result # "True"
    /\ Started("_validate_metadata") => (do_aux2 => do_aux1)

C3_Witness ==
    /\ pc = "done"
    /\ LayoutPassed
    /\ Aux2WithoutAux1
    /\ do_aux2 = TRUE
    /\ do_aux1 = FALSE
    /\ raised.msg = "found aux2 but not aux1"
    /\ result = "False"

\* ---------------------------------------------------------------- C4
\* C4: when an auxiliary kind is under exactly one language, or kind 2 is
\* there without kind 1, then metadata validation, the validation of the
\* code bundle and both language validations are never started.
Inconsistent ==
    \/ \E name \in AuxNames : InOneOnly(name)
    \/ Aux2WithoutAux1

C4_NothingAfterInconsistency ==
    Inconsistent => \A op \in LaterStages : ~Started(op)

\* The layout was fine, the inconsistency was met and the run is over.
C4_Witness ==
    /\ pc = "done"
    /\ LayoutPassed
    /\ Inconsistent
    /\ Made("_detect_auxiliary", None, "auxiliary_embedding2")
    /\ raised.type = "ValueError"

\* ---------------------------------------------------------------- C5
\* C5: the schema handed to validate_yaml always requires the five fixed
\* keys, and holds 'auxiliary<k> description' among the required keys
\* when do_aux<k> is true and among the optional keys otherwise, never in
\* both and never in neither; a document accepted while auxiliary 1 is
\* present has 'auxiliary1 description', and a document that is otherwise
\* well formed is not rejected for having it while auxiliary 1 is absent.
TheFixedKeys ==
    {"abx distance", "system description", "hyperparameters",
     "using parallel train", "using external data"}

SchemaFor(req, opt, aux1, aux2) ==
    /\ TheFixedKeys \subseteq DOMAIN req
    /\ DOMAIN req \cup DOMAIN opt =
          TheFixedKeys \cup {"auxiliary1 description",
                             "auxiliary2 description"}
    /\ DOMAIN req \cap DOMAIN opt = {}
    /\ ("auxiliary1 description" \in DOMAIN req) <=> aux1
    /\ ("auxiliary2 description" \in DOMAIN req) <=> aux2
    /\ \A k \in DOMAIN opt : opt[k] = "str"
    /\ \A k \in DOMAIN req \ TheFixedKeys : req[k] = "str"

\* The document is well formed but for the two auxiliary descriptions.
RestWellFormed(doc) ==
    /\ TheFixedKeys \subseteq doc.keys
    /\ doc.keys \subseteq TheFixedKeys \cup {"auxiliary1 description",
                                            "auxiliary2 description"}
    /\ doc.types["abx distance"] = "str"
    /\ doc.types["system description"] = "str"
    /\ doc.types["using parallel train"] = "bool"
    /\ doc.types["using external data"] = "bool"

C5_ConditionalSchema ==
    /\ pc \in {"validate_yaml", "check_distance"} =>
          SchemaFor(entries, optional_entries, do_aux1, do_aux2)
    /\ \A a1, a2 \in BOOLEAN :
          SchemaFor(required_entries(a1, a2), optional_schema(a1, a2), a1, a2)
    /\ (pc = "check_distance" /\ do_aux1) =>
          "auxiliary1 description" \in metadata.keys
    /\ (raised.msg = "metadata" /\ ~do_aux1
          /\ "auxiliary1 description" \in metadata.keys
          /\ (do_aux2 => "auxiliary2 description" \in metadata.keys))
       => ~RestWellFormed(metadata)

\* Auxiliary 1 is absent, the document describes it all the same, and the
\* schema check has accepted the document.
C5_Witness ==
    /\ pc = "check_distance"
    /\ ~do_aux1
    /\ "auxiliary1 description" \in metadata.keys
    /\ "auxiliary1 description" \in DOMAIN optional_entries

\* ---------------------------------------------------------------- C6
\* C6: for a document that passed the schema check, a value of 'abx
\* distance' outside dtw_cosine, dtw_kl, levenshtein raises a ValueError
\* naming 'abx distance' and the value, after which neither the code
\* bundle nor any language is validated; a value among the three lets
\* metadata validation succeed.
C6_AbxDistance ==
    /\ [][pc = "check_distance" =>
            IF metadata.abx \in {"dtw_cosine", "dtw_kl", "levenshtein"}
            THEN pc' = "validate_code" /\ raised' = raised
            ELSE /\ pc' = "raised"
                 /\ raised' = [type |-> "ValueError",
                               msg  |-> "abx distance",
                               arg  |-> metadata.abx]]_vars
    /\ [](raised.msg = "abx distance" =>
            /\ ~Started("validate_code")
            /\ ~Started("LanguageValidation")
            /\ ~Started("validate")
            /\ result # "True")

C6_Witness ==
    /\ pc = "done"
    /\ raised = [type |-> "ValueError", msg |-> "abx distance",
                 arg |-> "dtw_euclidean"]
    /\ metadata.abx = "dtw_euclidean"
    /\ result = "False"

\* ---------------------------------------------------------------- C7
\* C7: when the validation of english ends with a non-empty list of
\* errors, the errors are reported and control goes on to the validation
\* of surprise; validate() never returns without having validated
\* surprise.
C7_NoShortCircuit ==
    /\ [][(pc = "log_errors" /\ language = "english" /\ errors # <<>>) =>
            /\ calls' = Append(calls,
                           Call("log_errors", "english", None, None))
            /\ pc' = "validate_language"
            /\ language' = "surprise"
            /\ raised' = raised]_vars
    /\ [](pc = "returned" => Made("validate", "surprise", None))

\* english was reported with errors and surprise is being validated.
C7_Witness ==
    /\ Reported("english")
    /\ Made("_check_exists", "surprise", "test")
    /\ pc = "check_embedding"

\* ---------------------------------------------------------------- C8
\* C8: at the end of a language validation in which test/ had missing
\* files, every auxiliary directory that was validated and had none of
\* its own files missing has had its embedding check and its audio check.
HasMissing(d) ==
    \E i \in 1..Len(errors) : errors[i].root_dir = d

C8_OtherDirectoriesUnaffected ==
    (pc = "log_errors" /\ HasMissing("test")) =>
        \A name \in AuxNames :
            (Made("_check_exists", language, name) /\ ~HasMissing(name)) =>
                /\ Made("_check_embedding", language, name)
                /\ Made("_check_wavs", language, name)

\* ---------------------------------------------------------------- C9
\* C9: for the directory being validated, when files of it are missing
\* neither the embedding check nor the audio check is made, and when the
\* embedding check found a malformed file the audio check is not made.
MissingHere == expected_files \ existing_files

C9_ShortCircuit ==
    [][/\ (pc = "check_embedding" /\ MissingHere # {}) => calls' = calls
       /\ (pc = "check_wavs" /\ (MissingHere # {} \/ malformed))
             => calls' = calls]_vars

\* --------------------------------------------------------------- C10
\* C10: on an existing directory _check_exists appends to the errors one
\* 'missing file' entry for each element of expected - actual and nothing
\* else, where expected is the set of the basenames of the first token of
\* the lines of the filelist and actual is the listing of the directory;
\* each entry names the language, the directory and the file.
C10_OneErrorPerMissingFile ==
    [][(pc = "check_exists" /\ pc' = "check_embedding") =>
         LET lines    == filelists'[exist_list].lines
             expected == {lines[i].first.base : i \in 1..Len(lines)}
             missing  == expected \ existing_files'
             added    == SubSeq(errors', Len(errors) + 1, Len(errors'))
         IN  /\ SubSeq(errors', 1, Len(errors)) = errors
             /\ Len(added) = Cardinality(missing)
             /\ \A f \in missing :
                   \E i \in 1..Len(added) :
                       added[i] = [kind     |-> "missing file",
                                   language |-> language,
                                   root_dir |-> directory,
                                   file     |-> f]
             /\ \A i \in 1..Len(added) : added[i].file \in missing]_vars

\* One listed file is missing from test/, which also holds a file that
\* is not listed: exactly one error.
C10_Witness ==
    /\ pc = "check_embedding"
    /\ directory = "test"
    /\ Cardinality(expected_files \ existing_files) = 1
    /\ existing_files \ expected_files # {}
    /\ Len(errors) = 1
    /\ errors[1].root_dir = "test"
    /\ errors[1].file \in expected_files \ existing_files

\* ---------------------------------------------------------------- C11
\* validate() of a LanguageValidation has ended, by returning or raising.
Ended == pc \in {"log_errors", "raised"}

\* C11: every LanguageValidation.validate() call starts from a fresh error
\* log: once the call has started, the log holds exactly the errors this
\* call has found, in the order it found them, whatever the last call left;
\* so a call that finds nothing ends with an empty log, however often the
\* validator is reused.
C11_FreshLog ==
    /\ pc # "validate" => errors = found
    /\ (Ended /\ found = <<>>) => errors = <<>>

\* A second call returned with an empty log on a validator whose first
\* call had left errors.
C11_Witness ==
    /\ previous.calls >= 1
    /\ previous.errors # <<>>
    /\ pc = "log_errors"
    /\ errors = <<>>

\* ---------------------------------------------------------------- C12
\* C12: is_valid() turns every error raised during validation into the
\* answer False and lets none propagate: when it is over, its outcome is
\* True or False.
C12_AlwaysBoolean == pc = "done" => result \in {"True", "False"}

\* ---------------------------------------------------------------- C13
\* The last operation that was begun.
LastOp == IF calls = <<>> THEN None ELSE calls[Len(calls)].op

\* C13: the audio check never raises for a listed audio file: no run ends
\* with an error raised by _check_wavs.
C13_AudioNeverRaises == pc = "raised" => LastOp # "_check_wavs"

\* ---------------------------------------------------------------- C14
\* The place of an operation in the order of the stages: the layout, the
\* two detections, the metadata, the code bundle, then for english and
\* after it for surprise the construction of the validator, validate(),
\* for test, auxiliary_embedding1 and auxiliary_embedding2 in turn the
\* existence, embedding and audio checks, and the report of the errors.
LanguageIndex(l) == IF l = Languages[1] THEN 0 ELSE 1

DirectoryIndex(d) ==
    IF d = "test" THEN 0
    ELSE IF d = "auxiliary_embedding1" THEN 1
    ELSE 2

StageRank(c) ==
    LET k == 12 * LanguageIndex(c.language)
        j == 3 * DirectoryIndex(c.directory)
    IN  CASE c.op = "validate_directory" -> 1
          [] c.op = "_detect_auxiliary"  -> 1 + DirectoryIndex(c.directory)
          [] c.op = "_validate_metadata" -> 4
          [] c.op = "validate_yaml"      -> 5
          [] c.op = "validate_code"      -> 6
          [] c.op = "LanguageValidation" -> 7 + k
          [] c.op = "validate"           -> 8 + k
          [] c.op = "_check_exists"      -> 9 + k + j
          [] c.op = "_check_embedding"   -> 10 + k + j
          [] c.op = "_check_wavs"        -> 11 + k + j
          [] c.op = "log_errors"         -> 18 + k

\* The stages every run goes through unless an earlier one raised: all
\* those before the languages and, for each language, the construction,
\* validate() and the existence check of test.
MandatoryRanks == (1..9) \cup (19..21)

\* C14: the stages run strictly in the documented order (layout, detection
\* of auxiliary kind 1 then kind 2, metadata, code bundle, english, then
\* surprise; within a language test, auxiliary 1, auxiliary 2; within a
\* directory existence, embedding, audio): the first operation is the
\* layout check, each operation comes later in the order than the one
\* before it without passing over a mandatory stage, the ordering check
\* sits between the second detection and the metadata, and once a stage
\* has raised no other stage starts.
C14_StagesInOrder ==
    /\ [](calls # <<>> => StageRank(calls[1]) = 1)
    /\ [](\A i \in 1..(Len(calls) - 1) :
            /\ StageRank(calls[i]) < StageRank(calls[i + 1])
            /\ \A r \in MandatoryRanks :
                 ~(StageRank(calls[i]) < r /\ r < StageRank(calls[i + 1])))
    /\ [](pc = "check_order" => StageRank(calls[Len(calls)]) = 3)
    /\ [][pc = "check_order" => (calls' = calls /\
             pc' \in {"validate_metadata", "raised"})]_vars
    /\ [][raised # NoError => calls' = calls]_vars

\* A run went through every stage, the audio check of the last directory
\* included.
C14_Witness ==
    /\ pc = "returned"
    /\ do_aux1
    /\ do_aux2
    /\ Made("_check_wavs", "english", "test")
    /\ Made("_check_wavs", "surprise", "auxiliary_embedding2")

\* ---------------------------------------------------------------- C15
\* The filelists a check of directory d may be given.
ExistenceList(d) == IF d = "test" THEN "required" ELSE "embedding"

FormatList(d) == IF d = "test" THEN "embedding" ELSE "bitrate"

\* validate() of the validator of language l has returned.
LanguageOver(l) ==
    /\ Made("validate", l, None)
    /\ language # l \/ pc = "log_errors"

WellPaired(c) ==
    /\ c.op = "_check_exists" => c.list = ExistenceList(c.directory)
    /\ c.op = "_check_embedding" => c.list = FormatList(c.directory)

\* C15: test is always checked, for existence against the required
\* filelist and for format against the embedding filelist; auxiliary
\* directory k is checked if and only if has_aux<k> is set, for existence
\* against the embedding filelist and for format against the bitrate
\* filelist; no check is ever given another pairing.
C15_ManifestPairing ==
    /\ \A i \in 1..Len(calls) : WellPaired(calls[i])
    /\ pc \in {"check_exists", "check_embedding", "check_wavs"} =>
          /\ exist_list = ExistenceList(directory)
          /\ embedding_list = FormatList(directory)
    /\ \A l \in LanguageSet :
          /\ Made("_check_exists", l, "auxiliary_embedding1") => do_aux1
          /\ Made("_check_exists", l, "auxiliary_embedding2") => do_aux2
          /\ LanguageOver(l) =>
                /\ Made("_check_exists", l, "test")
                /\ do_aux1 => Made("_check_exists", l, "auxiliary_embedding1")
                /\ do_aux2 => Made("_check_exists", l, "auxiliary_embedding2")

\* The format check of an auxiliary directory has been made, after that of
\* test.
C15_Witness ==
    /\ Made("_check_embedding", "english", "test")
    /\ Made("_check_embedding", "english", "auxiliary_embedding2")
    /\ LanguageOver("english")

\* ---------------------------------------------------------------- C16
\* The run ended on the artifact directory that does not exist.
DirectoryMissing == raised.msg = "directory does not exist"

\* C16: when an artifact directory to be validated does not exist, the
\* existence check raises at once, naming the directory, and appends
\* nothing to the errors; no other directory of the language is checked,
\* no check follows, the next language is not validated, and validate()
\* fails (is_valid() answers False).
C16_MissingDirectoryRaises ==
    /\ [][(pc = "check_exists" /\ pc' # pc /\ ~isdir') =>
            /\ pc' = "raised"
            /\ raised' = Error("ValueError", "directory does not exist",
                               directory)
            /\ errors' = errors]_vars
    /\ [](DirectoryMissing =>
            /\ calls[Len(calls)] =
                 Call("_check_exists", language, raised.arg,
                      ExistenceList(raised.arg))
            /\ \A d \in AuxNames :
                 raised.arg = "test" => ~Made("_check_exists", language, d)
            /\ language = "english" =>
                 ~Made("LanguageValidation", "surprise", None)
            /\ pc \in {"raised", "done"}
            /\ pc = "done" => result = "False")

\* english/test does not exist in a submission with both auxiliary kinds:
\* is_valid() answered False.
C16_Witness ==
    /\ DirectoryMissing
    /\ language = "english"
    /\ do_aux1
    /\ do_aux2
    /\ errors = <<>>
    /\ pc = "done"

\* ---------------------------------------------------------------- C17
Entries(log) == {log[i] : i \in 1..Len(log)}

\* C17: two validations of the same submission against the same filelists
\* end with the same log, the same entries in the same order: when
\* validate() has returned twice on the same arguments with the same
\* entries logged, the two logs are equal.
C17_SameLogSameOrder ==
    (/\ previous.calls >= 1
     /\ previous.returned
     /\ pc = "log_errors"
     /\ Entries(previous.errors) = Entries(errors))
        => errors = previous.errors

\* ---------------------------------------------------------------- C18
\* C18: within a language the existence check is never skipped: every
\* directory to validate (test, and each flagged auxiliary directory) has
\* its existence check whatever errors were found before it, each file
\* missing from a checked directory gets its entry in the log, and the
\* entries stay in the log until the validation of the language returns.
C18_ExistenceNeverSkipped ==
    /\ [][(pc = "check_exists" /\ pc' # pc) =>
            /\ calls' = Append(calls, Call("_check_exists", language,
                                           directory, exist_list))
            /\ isdir' =>
                 \A f \in expected_files' \ existing_files' :
                    missing_error(language, directory, f) \in Entries(errors')]_vars
    /\ [][(pc \in {"check_exists", "check_embedding", "check_wavs"}) =>
            Entries(errors) \subseteq Entries(errors')]_vars
    /\ [](pc = "log_errors" =>
            \A d \in {"test"} \cup {a \in AuxNames : aux_dirs[language][a]} :
                Made("_check_exists", language, d))

\* The log of a language holds missing files of test and of both auxiliary
\* directories.
C18_Witness ==
    /\ pc = "log_errors"
    /\ HasMissing("test")
    /\ HasMissing("auxiliary_embedding1")
    /\ HasMissing("auxiliary_embedding2")

\* ---------------------------------------------------------------- C19
\* C19: the error logs of the two languages are separate: every entry of
\* the log belongs to the language being validated, and in surprise the
\* embedding check and the audio check of a directory are made whenever
\* the validation of surprise itself has found no error, whatever english
\* was reported with.
C19_LogsIsolated ==
    /\ [](\A i \in 1..Len(errors) : errors[i].language = language)
    /\ [][(/\ language = "surprise"
           /\ found = <<>>
           /\ pc = "check_embedding") =>
            calls' = Append(calls, Call("_check_embedding", language,
                                        directory, embedding_list))]_vars
    /\ [][(/\ language = "surprise"
           /\ found = <<>>
           /\ pc = "check_wavs") =>
            calls' = Append(calls, Call("_check_wavs", language,
                                        directory, exist_list))]_vars

\* english was reported with errors; surprise has had its embedding and
\* audio checks and ends with an empty log.
C19_Witness ==
    /\ Reported("english")
    /\ language = "surprise"
    /\ Made("_check_embedding", "surprise", "test")
    /\ Made("_check_wavs", "surprise", "test")
    /\ pc = "log_errors"
    /\ errors = <<>>

====
